---- MODULE Spec2Model ----
(***************************************************************************)
(* Model of the GPU job scheduler of modules/video_processor.py:           *)
(* process_videos_smart, process_videos_parallel and the pool worker       *)
(* process_single_video_task.  The caller thread and the pool's worker     *)
(* threads are interleaved one step at a time.  What the media files and   *)
(* the encoder do for a task is fixed by the environment (media), chosen   *)
(* in Init; the scheduler's code never looks at it.                        *)
(***************************************************************************)
EXTENDS Integers, Sequences, FiniteSets, TLC

VARIABLES
    entry,            \* which function the caller invoked
    tasks,            \* the caller's list of task dicts
    media,            \* media[i]: what probing/encoding task i's files does
    gpu,              \* whether the h264_nvenc encoder is installed
    requested,        \* the max_workers argument as the caller passed it
    max_workers,      \* the max_workers local variable
    pc,               \* position of the caller thread
    gpu_checks,       \* number of "ffmpeg -encoders" subprocesses launched
    executor,         \* TRUE once the ThreadPoolExecutor exists
    num_threads,      \* worker threads of the executor
    submitted,        \* number of tasks given to executor.submit
    queue,            \* the executor's work queue (task indices, FIFO)
    running,          \* task indices a worker thread is executing
    launched,         \* task indices whose pipeline launched a subprocess
    ranBy,            \* ranBy[i]: "nobody", "caller" or "worker"
    runs,             \* runs[i]: how many times task i was started
    future,           \* future[i]: Pending or the worker's result record
    yielded,          \* futures as_completed has already handed out
    results,          \* the results list
    completed_count,  \* the completed_count local
    ret,              \* the returned batch dict, or NoReturn
    exc,              \* the exception that left the scheduler, or NoExc
    quality_preset,   \* the quality_preset argument of the batch
    task_preset,      \* task_preset[i]: task i's own 'quality_preset' entry
    prepared_tasks,   \* the prepared_tasks list
    applied,          \* applied[i]: the preset task i's pipeline was given
    \* loop_video_to_match_audio, run by pool workers
    jobs,             \* jobs[t]: durations and resolution of task t's media
    layout,           \* how the tasks' output paths and videos are laid out
    step,             \* step[t]: the step task t is executing
    trace,            \* trace[t]: the steps task t has launched, in order
    loops,            \* loops[t]: loops_needed, 0 until it is computed
    storage,          \* the files that exist in the output directories
    outcome,          \* outcome[t]: what the call returned or raised
    starts,           \* starts[t]: how many times task t was started
    failed_steps,     \* failed_steps[t]: the steps of task t that failed
    touched,          \* the files a step has written or deleted so far
    \* apply_video_overlay_smart
    overlay_call,     \* the arguments and the two probed durations
    window,           \* the window it resolved, or NoWindow
    \* chunk_text_by_words
    text,             \* the text argument, a sequence of characters
    max_words,        \* the max_words argument
    chunks,           \* the returned list of chunks, or NotChunked
    \* format_timestamp_ass
    seconds,          \* the seconds argument, in thousandths of a second
    stamp,            \* the returned timestamp text, or NotFormatted
    \* transcribe_audio
    segments,         \* the segments the speech model yields
    seg_pos,          \* how many of them the loop has consumed
    chunked_segments, \* the chunked_segments list
    origin,           \* origin[k]: the segment chunked_segments[k] is from
    full_text,        \* the full_text list
    transcript,       \* the returned dict, or NotTranscribed
    \* create_ass_file, one Dialogue line in karaoke mode
    line,             \* the caption segment: start, end and text
    karaoke,          \* the karaoke tags written for it, or NotWritten
    selected_stories, \* the selected stories and what will happen to each
    enable_overlay,   \* the "Enable Video Overlay" checkbox
    overlay_ready,    \* an overlay video was uploaded and could be read
    story_idx,        \* the story the loop is at; 0 before the first
    stage,            \* the stage the story is about to run
    processed_count,  \* the loop's counter of finished stories
    failed_count,     \* the loop's counter of failed stories
    disk,             \* disk[f]: what file f holds
    writers,          \* writers[f]: the stages that have written file f
    stages,           \* stages[i]: the stages started for story i, in order
    log,              \* one entry per increment of a counter
    yt_is_running,    \* st.session_state.yt_is_running
    channel_configs,  \* what extract_videos will find in each channel
    yt_pc,            \* where the extraction run is
    idx,              \* the channel the run is at; 0 before the first
    video_i,          \* the video transcribe_videos is at
    late              \* the units of work started with the flag cleared

vars == <<entry, tasks, media, gpu, requested, max_workers, pc, gpu_checks,
          executor, num_threads, submitted, queue, running, launched, ranBy,
          runs, future, yielded, results, completed_count, ret, exc,
          quality_preset, task_preset, prepared_tasks, applied,
          jobs, layout, step, trace, loops, storage, outcome, starts,
          failed_steps, touched, overlay_call, window, text, max_words, chunks,
          seconds, stamp, segments, seg_pos, chunked_segments, origin,
          full_text, transcript, line, karaoke,
          selected_stories, enable_overlay, overlay_ready, story_idx, stage,
          processed_count, failed_count, disk, writers, stages, log,
          yt_is_running, channel_configs, yt_pc, idx, video_i, late>>

matcher ==
    <<jobs, layout, step, trace, loops, storage, outcome, starts,
      failed_steps, touched>>
overlay == <<overlay_call, window>>
chunker == <<text, max_words, chunks>>
timestamps == <<seconds, stamp>>
transcriber ==
    <<segments, seg_pos, chunked_segments, origin, full_text, transcript>>
dialogue == <<line, karaoke>>
story ==
    <<selected_stories, enable_overlay, overlay_ready, story_idx, stage,
      processed_count, failed_count, disk, writers, stages, log>>
yt == <<yt_is_running, channel_configs, yt_pc, idx, video_i, late>>
apps == <<story, yt>>
rest == <<timestamps, transcriber, dialogue, apps>>

(* The parts of the state a specification does not exercise stay as they   *)
(* are before any call.                                                    *)
NoWindow == [resolved |-> FALSE]
NotChunked == [done |-> FALSE]

MatcherIdle ==
    /\ jobs = <<>> /\ layout = "separate" /\ step = <<>> /\ trace = <<>>
    /\ loops = <<>> /\ storage = {} /\ outcome = <<>> /\ starts = <<>>
    /\ failed_steps = <<>> /\ touched = {}

OverlayIdle == overlay_call = [called |-> FALSE] /\ window = NoWindow

ChunkerIdle == text = <<>> /\ max_words = 1 /\ chunks = NotChunked

NotFormatted == [done |-> FALSE]

TimestampIdle == seconds = 0 /\ stamp = NotFormatted

NotTranscribed == [returned |-> FALSE]

TranscriberIdle ==
    /\ segments = <<>> /\ seg_pos = 0 /\ chunked_segments = <<>>
    /\ origin = <<>> /\ full_text = <<>> /\ transcript = NotTranscribed

NotWritten == [done |-> FALSE]

DialogueIdle ==
    line = [start |-> 0, end |-> 0, text |-> <<>>] /\ karaoke = NotWritten

(* No story is selected and the processing button was not pressed.         *)
StoryIdle ==
    /\ selected_stories = <<>> /\ enable_overlay = FALSE
    /\ overlay_ready = FALSE /\ story_idx = 0 /\ stage = "idle"
    /\ processed_count = 0 /\ failed_count = 0
    /\ disk = <<>> /\ writers = <<>> /\ stages = <<>> /\ log = <<>>

(* Lines 185-186 of yttranscriber.py: no extraction is running.            *)
YtIdle ==
    /\ yt_is_running = FALSE /\ channel_configs = <<>> /\ yt_pc = "button"
    /\ idx = 0 /\ video_i = 0 /\ late = {}

AppsIdle == StoryIdle /\ YtIdle

RestIdle == TimestampIdle /\ TranscriberIdle /\ DialogueIdle /\ AppsIdle

----------------------------------------------------------------------------
(* Bounds of the model.                                                    *)

MaxTasks == 3          \* batches of 0..MaxTasks tasks with arbitrary defects
MaxRequest == 2        \* max_workers requests of -1..MaxRequest for them
MaxFairTasks == 3      \* batch size under the fair specification
MaxPresetTasks == 2    \* batch size when the tasks carry presets
MaxChannels == 3       \* channels of one extraction run
MaxVideos == 2         \* videos found in one channel
MaxStories == 2        \* selected stories
LargeRequest == 20     \* a max_workers request above the ceiling

(* The hard ceiling of line 390.                                           *)
MaxPool == 6

(* A healthy batch one task larger than the ceiling, so that the ceiling   *)
(* is what limits the number of tasks in flight.                           *)
PoolBatch == MaxPool + 1

----------------------------------------------------------------------------
(* Values.                                                                 *)

None == <<>>                      \* Python None
Some(v) == <<v>>                  \* a present value
Pending == [status |-> "pending"] \* a future that is not done
NoReturn == [returned |-> FALSE]
NoExc == <<"none", "">>

Fields == {"video_path", "audio_path", "output_path"}

(* task[f] for a key the dict holds: each task has its own paths.          *)
PathOf(i, f) == <<f, i>>

(* task.get(f): the value, or None when the key is absent.                 *)
Get(task, f) == IF f \in task.keys THEN PathOf(task.id, f) ELSE None

(* What the files and the encoder of one task do.                          *)
MediaKinds == {"ok", "missing_audio", "encode_error", "timeout"}

Min(a, b) == IF a <= b THEN a ELSE b

----------------------------------------------------------------------------
(* check_gpu_available: the values the encoder probe can return.  The      *)
(* probe subprocess can time out or fail to start even when the encoder is *)
(* installed (the bare except returns False); it finds the encoder name    *)
(* only when the encoder is installed.                                     *)

check_gpu_available_broken(installed) == {TRUE}

check_gpu_available(installed) == IF installed THEN {TRUE, FALSE} ELSE {FALSE}

(* The exception that leaves the scheduler.                                *)
GpuError == <<"RuntimeError", "GPU (NVENC) not available">>
PoolError == <<"ValueError", "max_workers must be greater than 0">>
KeyError(f) == <<"KeyError", f>>

----------------------------------------------------------------------------
(* loop_video_to_match_audio, as seen by its caller: it returns            *)
(* (output path, elapsed time) or raises with the captured message.        *)

Returned(path) == [raised |-> FALSE, path |-> path, time |-> "elapsed"]
Raised(msg) == [raised |-> TRUE, msg |-> msg]

loop_video_to_match_audio(i, m) ==
    CASE m = "missing_audio" -> Raised("ffprobe error: ")
      [] m = "encode_error"  -> Raised("GPU video-audio combination failed: ")
      [] m = "timeout"       -> Raised("Command timed out after 3600 seconds")
      [] OTHER               -> Returned(PathOf(i, "output_path"))

(* str(KeyError(f)) is the quoted key.                                     *)
KeyErrorStr(f) == CASE f = "video_path"  -> "'video_path'"
                    [] f = "audio_path"  -> "'audio_path'"
                    [] OTHER             -> "'output_path'"

(* The first of video_path, audio_path, output_path that the dict lacks,   *)
(* in the order the code subscripts them; "" when all are there.           *)
FirstMissing(task) ==
    IF "video_path" \notin task.keys THEN "video_path"
    ELSE IF "audio_path" \notin task.keys THEN "audio_path"
    ELSE IF "output_path" \notin task.keys THEN "output_path"
    ELSE ""

(* Whether running the task gets as far as the first subprocess.           *)
StartsPipeline(task) == FirstMissing(task) = ""

----------------------------------------------------------------------------
(* process_single_video_task: the worker's result record.                  *)

WorkerSuccess(task, out) ==
    [status |-> "success", output_path |-> out.path,
     video_path |-> PathOf(task.id, "video_path"),
     audio_path |-> PathOf(task.id, "audio_path"),
     error |-> None, processing_time |-> out.time, total_time |-> "elapsed"]

WorkerFailed_no_error(task, msg) ==
    [status |-> "failed", output_path |-> None,
     video_path |-> Get(task, "video_path"),
     audio_path |-> Get(task, "audio_path"),
     error |-> None, processing_time |-> "0", total_time |-> "elapsed"]

WorkerFailed(task, msg) ==
    [status |-> "failed", output_path |-> None,
     video_path |-> Get(task, "video_path"),
     audio_path |-> Get(task, "audio_path"),
     error |-> Some(msg), processing_time |-> "0", total_time |-> "elapsed"]

process_single_video_task(task, m) ==
    IF FirstMissing(task) # ""
    THEN WorkerFailed(task, KeyErrorStr(FirstMissing(task)))
    ELSE LET out == loop_video_to_match_audio(task.id, m)
         IN  IF out.raised THEN WorkerFailed(task, out.msg)
                           ELSE WorkerSuccess(task, out)

----------------------------------------------------------------------------
(* The single-task branch of process_videos_smart.  The except block       *)
(* subscripts task['video_path'] and task['audio_path'] again, so a        *)
(* KeyError for one of those two keys is raised a second time inside the   *)
(* handler, where nothing catches it.                                      *)

SingleSuccess(task, out) ==
    [status |-> "success", output_path |-> out.path,
     video_path |-> PathOf(task.id, "video_path"),
     audio_path |-> PathOf(task.id, "audio_path"),
     error |-> None, processing_time |-> out.time, total_time |-> "elapsed"]

SingleFailed_timed(task, msg) ==
    [status |-> "failed", output_path |-> None,
     video_path |-> PathOf(task.id, "video_path"),
     audio_path |-> PathOf(task.id, "audio_path"),
     error |-> Some(msg), processing_time |-> "elapsed",
     total_time |-> "elapsed"]

SingleFailed(task, msg) ==
    [status |-> "failed", output_path |-> None,
     video_path |-> PathOf(task.id, "video_path"),
     audio_path |-> PathOf(task.id, "audio_path"),
     error |-> Some(msg), processing_time |-> "0", total_time |-> "elapsed"]

Escapes(e) == [escapes |-> TRUE, exc |-> e]
Record(r) == [escapes |-> FALSE, record |-> r]

single_task(task, m) ==
    IF FirstMissing(task) \in {"video_path", "audio_path"}
    THEN Escapes(KeyError(FirstMissing(task)))
    ELSE IF FirstMissing(task) = "output_path"
    THEN Record(SingleFailed(task, KeyErrorStr("output_path")))
    ELSE LET out == loop_video_to_match_audio(task.id, m)
         IN  IF out.raised THEN Record(SingleFailed(task, out.msg))
                           ELSE Record(SingleSuccess(task, out))

----------------------------------------------------------------------------
(* The scheduler.                                                          *)

(* Lines 396-397: the prepared task is a copy of the caller's dict, with   *)
(* the batch's preset written over any preset of its own.                  *)
PreparedTask_keep_own(task, own, preset) ==
    [id |-> task.id, keys |-> task.keys,
     quality_preset |-> IF own # None THEN own ELSE Some(preset)]

PreparedTask(task, own, preset) ==
    [id |-> task.id, keys |-> task.keys, quality_preset |-> Some(preset)]

(* Line 335: task_data.get('quality_preset', 'high_quality').              *)
TaskPreset(task_data) ==
    IF task_data.quality_preset = None THEN "high_quality"
                                       ELSE task_data.quality_preset[1]

(* Line 390: the pool never has more than MaxPool workers.                 *)
EffectiveWorkers_no_ceiling(mw) == mw

EffectiveWorkers(mw) == Min(mw, MaxPool)

(* The branch process_videos_smart takes for a batch of n tasks.           *)
SmartBranch_pool_for_one(n) ==
    IF n = 0 THEN "empty" ELSE "parallel_check"

SmartBranch_no_empty(n) ==
    IF n = 1 THEN "single" ELSE "parallel_check"

SmartBranch(n) ==
    IF n = 0 THEN "empty" ELSE IF n = 1 THEN "single" ELSE "parallel_check"

(* Line 418: every result the loop receives goes into the results list.    *)
CollectResult_drop_failed(rs, r) ==
    IF r.status = "success" THEN Append(rs, r) ELSE rs

CollectResult(rs, r) == Append(rs, r)

(* Lines 441-442.                                                          *)
CountSuccess(rs) == Cardinality({k \in 1..Len(rs) : rs[k].status = "success"})

Summary_all_successful(rs, mode) ==
    [returned |-> TRUE, results |-> rs, total_time |-> "elapsed",
     successful_count |-> Len(rs), failed_count |-> 0,
     processing_mode |-> mode]

Summary(rs, mode) ==
    [returned |-> TRUE, results |-> rs, total_time |-> "elapsed",
     successful_count |-> CountSuccess(rs),
     failed_count |-> Len(rs) - CountSuccess(rs),
     processing_mode |-> mode]

(* Lines 472-478.                                                          *)
EmptyResult ==
    [returned |-> TRUE, results |-> <<>>, total_time |-> "0",
     successful_count |-> 0, failed_count |-> 0, processing_mode |-> "none"]

(* Lines 495-509 and 515-529: the single-task batch dict has its counts    *)
(* written out.                                                            *)
SingleResult(r) ==
    [returned |-> TRUE, results |-> <<r>>, total_time |-> "elapsed",
     successful_count |-> IF r.status = "success" THEN 1 ELSE 0,
     failed_count |-> IF r.status = "success" THEN 0 ELSE 1,
     processing_mode |-> "single_gpu"]

(* Futures as_completed can hand out next: done, and not handed out yet.   *)
AsCompleted ==
    {i \in 1..submitted : future[i] # Pending /\ i \notin yielded}

(* Leaving the with block is executor.shutdown(wait=True): it joins the    *)
(* worker threads, which first run every work item still queued.           *)
PoolDrained_no_wait == TRUE

PoolDrained == queue = <<>> /\ running = {}

----------------------------------------------------------------------------
(* Initial states: the call, with its arguments and its environment.       *)

TaskShapes == {Fields} \cup {Fields \ {f} : f \in Fields}

(* The state every call starts in.                                         *)
Start ==
    /\ pc = IF entry = "smart" THEN "smart_check" ELSE "parallel_check"
    /\ requested = max_workers
    /\ gpu_checks = 0
    /\ executor = FALSE
    /\ num_threads = 0
    /\ submitted = 0
    /\ queue = <<>>
    /\ running = {}
    /\ launched = {}
    /\ ranBy = [i \in 1..Len(tasks) |-> "nobody"]
    /\ runs = [i \in 1..Len(tasks) |-> 0]
    /\ future = [i \in 1..Len(tasks) |-> Pending]
    /\ yielded = {}
    /\ results = <<>>
    /\ completed_count = 0
    /\ ret = NoReturn
    /\ exc = NoExc
    /\ prepared_tasks = <<>>
    /\ applied = [i \in 1..Len(tasks) |-> None]

(* The batch argument is the default and no task carries a preset of its   *)
(* own.                                                                    *)
DefaultPresets ==
    /\ quality_preset = "high_quality"
    /\ task_preset = [i \in 1..Len(tasks) |-> None]

(* Batches of up to MaxTasks tasks, any of them defective, with up to      *)
(* MaxRequest workers requested.                                           *)
InitSmall ==
    /\ \E n \in 0..MaxTasks :
         /\ \E ks \in [1..n -> TaskShapes] :
              tasks = [i \in 1..n |-> [id |-> i, keys |-> ks[i]]]
         /\ media \in [1..n -> MediaKinds]
    /\ \A i \in 1..Len(tasks) : tasks[i].keys # Fields => media[i] = "ok"
    /\ max_workers \in -1..MaxRequest
    /\ entry \in {"smart", "parallel"}
    /\ gpu \in BOOLEAN

(* A healthy batch larger than the ceiling, with a generous request.       *)
InitLarge ==
    /\ tasks = [i \in 1..PoolBatch |-> [id |-> i, keys |-> Fields]]
    /\ media = [i \in 1..PoolBatch |-> "ok"]
    /\ max_workers \in {MaxPool, LargeRequest}
    /\ entry = "smart"
    /\ gpu = TRUE

Init ==
    /\ (InitSmall \/ InitLarge) /\ DefaultPresets /\ Start
    /\ MatcherIdle /\ OverlayIdle /\ ChunkerIdle /\ RestIdle

(* The batches of the fair specification: a task succeeds, fails in its    *)
(* encode, or fails for want of its 'video_path'.                          *)
InitFair ==
    /\ \E n \in 0..MaxFairTasks :
         /\ \E ks \in [1..n -> {Fields, Fields \ {"video_path"}}] :
              tasks = [i \in 1..n |-> [id |-> i, keys |-> ks[i]]]
         /\ media \in [1..n -> {"ok", "encode_error"}]
    /\ \A i \in 1..Len(tasks) : tasks[i].keys # Fields => media[i] = "ok"
    /\ max_workers \in 0..MaxRequest
    /\ entry = "smart"
    /\ gpu = TRUE
    /\ DefaultPresets /\ Start
    /\ MatcherIdle /\ OverlayIdle /\ ChunkerIdle /\ RestIdle

(* The scheduler before any call, for the specifications of the other      *)
(* functions.                                                              *)
SchedulerIdle ==
    /\ entry = "smart" /\ tasks = <<>> /\ media = <<>> /\ gpu = TRUE
    /\ max_workers = 1 /\ DefaultPresets /\ Start

inputs == <<entry, tasks, media, gpu, requested, quality_preset, task_preset>>
others == <<matcher, overlay, chunker, rest>>
taskrun == <<launched, ranBy, runs, applied>>
pool ==
    <<executor, num_threads, submitted, queue, running, future, yielded,
      prepared_tasks>>

----------------------------------------------------------------------------
(* The caller thread.                                                      *)

(* process_videos_smart, lines 465-469 and the choice of branch.           *)
SmartCheck ==
    /\ pc = "smart_check"
    /\ gpu_checks' = gpu_checks + 1
    /\ \E detected \in check_gpu_available(gpu) :
         IF detected
         THEN pc' = SmartBranch(Len(tasks)) /\ exc' = exc
         ELSE pc' = "raised" /\ exc' = GpuError
    /\ UNCHANGED <<others, inputs, max_workers, pool, taskrun, results,
                   completed_count, ret>>

(* Lines 471-478.                                                          *)
SmartEmpty ==
    /\ pc = "empty"
    /\ ret' = EmptyResult
    /\ pc' = "returned"
    /\ UNCHANGED <<others, inputs, max_workers, gpu_checks, pool, taskrun,
                   results, completed_count, exc>>

(* Lines 480-529: the task runs in the caller thread.                      *)
SmartSingle ==
    /\ pc = "single"
    /\ LET task == tasks[1]
           o == single_task(task, media[1])
       IN  /\ ranBy' = [ranBy EXCEPT ![1] = "caller"]
           /\ runs' = [runs EXCEPT ![1] = @ + 1]
           /\ launched' = IF StartsPipeline(task) THEN launched \cup {1}
                                                  ELSE launched
           /\ applied' = IF StartsPipeline(task)
                          THEN [applied EXCEPT ![1] = Some(quality_preset)]
                          ELSE applied
           /\ IF o.escapes
              THEN pc' = "raised" /\ exc' = o.exc /\ ret' = ret
              ELSE pc' = "returned" /\ exc' = exc
                   /\ ret' = SingleResult(o.record)
    /\ UNCHANGED <<others, inputs, max_workers, gpu_checks, pool, results,
                   completed_count>>

(* process_videos_parallel, lines 384-387.                                 *)
ParallelCheck ==
    /\ pc = "parallel_check"
    /\ gpu_checks' = gpu_checks + 1
    /\ \E detected \in check_gpu_available(gpu) :
         IF detected
         THEN pc' = "prepare" /\ exc' = exc
         ELSE pc' = "raised" /\ exc' = GpuError
    /\ UNCHANGED <<others, inputs, max_workers, pool, taskrun, results,
                   completed_count, ret>>

(* Lines 390-406: cap the workers and construct the pool, which refuses a  *)
(* worker count below 1.                                                   *)
Prepare ==
    /\ pc = "prepare"
    /\ max_workers' = EffectiveWorkers(max_workers)
    /\ prepared_tasks' =
          [i \in 1..Len(tasks) |->
              PreparedTask(tasks[i], task_preset[i], quality_preset)]
    /\ results' = <<>>
    /\ completed_count' = 0
    /\ IF max_workers' <= 0
       THEN pc' = "raised" /\ exc' = PoolError /\ executor' = executor
       ELSE /\ executor' = TRUE
            /\ exc' = exc
            /\ pc' = IF Len(tasks) = 0 THEN "collect" ELSE "submit"
    /\ UNCHANGED <<others, inputs, gpu_checks, num_threads, submitted, queue,
                   running, future, yielded, taskrun, ret>>

(* Lines 408-411: one executor.submit; the executor adds a worker thread   *)
(* while it has fewer than max_workers (it may reuse an idle one instead,  *)
(* which only lowers the number of tasks in flight).                       *)
Submit ==
    /\ pc = "submit"
    /\ submitted < Len(tasks)
    /\ submitted' = submitted + 1
    /\ queue' = Append(queue, submitted + 1)
    /\ num_threads' = IF num_threads < max_workers THEN num_threads + 1
                                                   ELSE num_threads
    /\ pc' = IF submitted + 1 = Len(tasks) THEN "collect" ELSE "submit"
    /\ UNCHANGED <<others, inputs, max_workers, gpu_checks, executor, running,
                   future, yielded, prepared_tasks, taskrun, results,
                   completed_count, ret, exc>>

(* Lines 414-437: one turn of the collection loop.  A failed result of a   *)
(* task without 'video_path' makes line 424 raise KeyError; the handler    *)
(* counts the task again and raises the same KeyError on line 428, which   *)
(* leaves the loop.                                                        *)
Collect(i) ==
    /\ pc = "collect"
    /\ i \in AsCompleted
    /\ yielded' = yielded \cup {i}
    /\ results' = CollectResult(results, future[i])
    /\ IF future[i].status = "success" \/ "video_path" \in tasks[i].keys
       THEN /\ completed_count' = completed_count + 1
            /\ UNCHANGED <<pc, exc>>
       ELSE /\ completed_count' = completed_count + 2
            /\ pc' = "unwind"
            /\ exc' = KeyError("video_path")
    /\ UNCHANGED <<others, inputs, max_workers, gpu_checks, executor, num_threads,
                   submitted, queue, running, future, prepared_tasks,
                   taskrun, ret>>

(* Lines 439-451, and 535 when called from process_videos_smart.           *)
ParallelReturn ==
    /\ pc = "collect"
    /\ yielded = 1..Len(tasks)
    /\ PoolDrained
    /\ ret' = Summary(results,
                      IF entry = "smart" THEN "parallel_gpu" ELSE "absent")
    /\ pc' = "returned"
    /\ UNCHANGED <<others, inputs, max_workers, gpu_checks, pool, taskrun,
                   results, completed_count, exc>>

(* The exception leaves the with block once the pool has shut down.        *)
Unwind ==
    /\ pc = "unwind"
    /\ PoolDrained
    /\ pc' = "raised"
    /\ UNCHANGED <<others, inputs, max_workers, gpu_checks, pool, taskrun,
                   results, completed_count, ret, exc>>

----------------------------------------------------------------------------
(* The worker threads.                                                     *)

(* A free worker thread takes the oldest work item and enters              *)
(* process_single_video_task.                                              *)
WorkerStart ==
    /\ executor
    /\ queue # <<>>
    /\ Cardinality(running) < num_threads
    /\ LET i == Head(queue)
       IN  /\ running' = running \cup {i}
           /\ ranBy' = [ranBy EXCEPT ![i] = "worker"]
           /\ runs' = [runs EXCEPT ![i] = @ + 1]
           /\ launched' = IF StartsPipeline(tasks[i]) THEN launched \cup {i}
                                                      ELSE launched
           /\ applied' = IF StartsPipeline(tasks[i])
                          THEN [applied EXCEPT
                                   ![i] = Some(TaskPreset(prepared_tasks[i]))]
                          ELSE applied
    /\ queue' = Tail(queue)
    /\ UNCHANGED <<others, inputs, max_workers, pc, gpu_checks, executor,
                   num_threads, submitted, future, yielded, prepared_tasks,
                   results, completed_count, ret, exc>>

(* process_single_video_task returns; its record completes the future.     *)
WorkerFinish(i) ==
    /\ i \in running
    /\ future' = [future EXCEPT ![i] = process_single_video_task(tasks[i], media[i])]
    /\ running' = running \ {i}
    /\ UNCHANGED <<others, inputs, max_workers, pc, gpu_checks, executor,
                   num_threads, submitted, queue, yielded, prepared_tasks,
                   taskrun, results, completed_count, ret, exc>>

----------------------------------------------------------------------------
Caller ==
    \/ SmartCheck
    \/ SmartEmpty
    \/ SmartSingle
    \/ ParallelCheck
    \/ Prepare
    \/ Submit
    \/ \E i \in 1..Len(tasks) : Collect(i)
    \/ ParallelReturn
    \/ Unwind

Next ==
    \/ SmartCheck
    \/ SmartEmpty
    \/ SmartSingle
    \/ ParallelCheck
    \/ Prepare
    \/ Submit
    \/ \E i \in 1..Len(tasks) : Collect(i)
    \/ ParallelReturn
    \/ Unwind
    \/ WorkerStart
    \/ \E i \in 1..Len(tasks) : WorkerFinish(i)

Spec == Init /\ [][Next]_vars

(* The threads are OS threads and every subprocess has a timeout: a thread *)
(* that can take a step eventually takes it.                               *)
FairSpec ==
    /\ InitFair
    /\ [][Next]_vars
    /\ WF_vars(Caller)
    /\ WF_vars(WorkerStart)
    /\ \A i \in 1..MaxFairTasks : WF_vars(WorkerFinish(i))

(* Batches whose tasks may carry a 'quality_preset' of their own, under a   *)
(* batch preset that may differ from it.                                   *)
InitPreset ==
    /\ \E n \in 0..MaxPresetTasks :
         /\ \E ks \in [1..n -> {Fields, Fields \ {"video_path"}}] :
              tasks = [i \in 1..n |-> [id |-> i, keys |-> ks[i]]]
         /\ media \in [1..n -> {"ok", "encode_error"}]
         /\ task_preset \in
               [1..n -> {None, Some("ultra_fast"), Some("maximum_quality")}]
    /\ \A i \in 1..Len(tasks) : tasks[i].keys # Fields => media[i] = "ok"
    /\ quality_preset \in {"high_quality", "ultra_fast"}
    /\ max_workers \in 1..MaxPresetTasks
    /\ entry \in {"smart", "parallel"}
    /\ gpu = TRUE
    /\ Start
    /\ MatcherIdle /\ OverlayIdle /\ ChunkerIdle /\ RestIdle

PresetSpec == InitPreset /\ [][Next]_vars

----------------------------------------------------------------------------
(* Vocabulary of the properties.                                           *)

Terminated == pc \in {"returned", "raised"}
Done(i) == i \in DOMAIN future /\ future[i] # Pending
Terminal(i) == Done(i) /\ future[i].status \in {"success", "failed"}

(* The result record r is the one of task i: it carries one of its paths.  *)
RecordOf(i, r) ==
    \/ r.video_path = PathOf(i, "video_path")
    \/ r.audio_path = PathOf(i, "audio_path")

(* Task i's own pipeline completes without error.                          *)
PipelineOk(i) == tasks[i].keys = Fields /\ media[i] = "ok"

(* Every result record that exists anywhere in the state.                  *)
AllRecords ==
    {future[i] : i \in {j \in DOMAIN future : future[j] # Pending}}
    \cup {results[k] : k \in 1..Len(results)}
    \cup (IF ret.returned THEN {ret.results[k] : k \in 1..Len(ret.results)}
                          ELSE {})

NothingStarted ==
    /\ launched = {}
    /\ \A i \in 1..Len(tasks) : runs[i] = 0 /\ future[i] = Pending
    /\ ~executor /\ submitted = 0 /\ queue = <<>> /\ running = {}
    /\ results = <<>> /\ ret = NoReturn

----------------------------------------------------------------------------
(* C1: in the multi-task path a failed task neither cancels nor blocks     *)
(* another one: every task given to the pool eventually reaches a terminal *)
(* state (success or failed), whatever the other tasks did, and the        *)
(* scheduler is left only when every submitted task is terminal.           *)
C1_TasksIndependent ==
    /\ \A i \in 1..MaxFairTasks : (i <= submitted) ~> Terminal(i)
    /\ [](Terminated => \A i \in 1..submitted : Terminal(i))

(* A batch in which one task failed, another succeeded, and the scheduler  *)
(* returned.                                                               *)
C1_Witness ==
    /\ pc = "returned" /\ executor
    /\ \E i, j \in 1..submitted :
         /\ i < j
         /\ Terminal(i) /\ future[i].status = "failed"
         /\ Terminal(j) /\ future[j].status = "success"

(* C2: a per-task failure (probe error, encode error or timeout, missing   *)
(* input, missing task field) never raises past the scheduler: the only    *)
(* exceptions that leave it are the batch-level ones.                      *)
C2_TaskFailureNeverEscapes ==
    pc \in {"unwind", "raised"} => exc \in {GpuError, PoolError}

(* C3: in the multi-task path at most min(max_workers, 6) tasks are in     *)
(* flight at once, and the pool is built with that many workers.           *)
C3_PoolCeiling ==
    /\ running # {} => Cardinality(running) <= Min(requested, MaxPool)
    /\ executor => /\ max_workers = Min(requested, MaxPool)
                   /\ num_threads <= Min(requested, MaxPool)

(* Twenty workers requested, seven tasks: six in flight, the seventh       *)
(* waits.                                                                  *)
C3_Witness ==
    /\ requested = LargeRequest
    /\ Cardinality(running) = MaxPool
    /\ queue # <<>>

(* C4: when the scheduler returns, every task has been started exactly     *)
(* once and the results hold exactly one record per task, in any order.    *)
C4_OneRecordPerTask ==
    pc = "returned" =>
        /\ Len(ret.results) = Len(tasks)
        /\ \A i \in 1..Len(tasks) :
             /\ runs[i] = 1
             /\ Cardinality({k \in 1..Len(ret.results) :
                                RecordOf(i, ret.results[k])}) = 1

(* A returned batch whose results are not in submission order, one of its  *)
(* tasks having failed.                                                    *)
C4_Witness ==
    /\ pc = "returned"
    /\ Len(ret.results) >= 2
    /\ ~RecordOf(1, ret.results[1])
    /\ \E k \in 1..Len(ret.results) : ret.results[k].status = "failed"

(* C5: in every result record, output_path is present iff status is        *)
(* 'success', and error is present and non-empty iff status is 'failed'.   *)
C5_RecordShape ==
    \A r \in AllRecords :
        /\ r.status \in {"success", "failed"}
        /\ (r.output_path # None) <=> (r.status = "success")
        /\ (r.error # None /\ r.error # Some("")) <=> (r.status = "failed")

(* A returned batch holding a record of each kind.                         *)
C5_Witness ==
    /\ ret.returned
    /\ \E k \in 1..Len(ret.results) : ret.results[k].status = "failed"
    /\ \E k \in 1..Len(ret.results) : ret.results[k].status = "success"

(* C6: in the batch result successful_count is the number of tasks whose   *)
(* pipeline completed, failed_count the number whose pipeline raised, and  *)
(* they add up to the number of tasks; three tasks of which exactly one    *)
(* lacks its audio give 2 and 1, the failed record having a non-empty      *)
(* error and no output path.                                               *)
MissingAudio(i) ==
    \/ tasks[i].keys = Fields /\ media[i] = "missing_audio"
    \/ tasks[i].keys = Fields \ {"audio_path"}

OneMissingAudioOfThree ==
    /\ Len(tasks) = 3
    /\ \E i \in 1..3 : /\ MissingAudio(i)
                       /\ \A j \in (1..3) \ {i} : PipelineOk(j)

C6_Counts ==
    pc = "returned" =>
        /\ ret.successful_count =
              Cardinality({i \in 1..Len(tasks) : PipelineOk(i)})
        /\ ret.failed_count =
              Cardinality({i \in 1..Len(tasks) : ~PipelineOk(i)})
        /\ ret.successful_count + ret.failed_count = Len(tasks)
        /\ OneMissingAudioOfThree =>
              /\ ret.successful_count = 2
              /\ ret.failed_count = 1
              /\ \A k \in 1..Len(ret.results) :
                    ret.results[k].status = "failed" =>
                        /\ ret.results[k].error \notin {None, Some("")}
                        /\ ret.results[k].output_path = None

C6_Witness ==
    /\ pc = "returned"
    /\ OneMissingAudioOfThree
    /\ ret.successful_count = 2
    /\ ret.failed_count = 1

(* C7: without the hardware encoder the scheduler raises before any task   *)
(* is scheduled: no task is started, no pool is built, no subprocess of a  *)
(* task is launched and no result is produced.                             *)
C7_RefusesWithoutEncoder ==
    /\ ~gpu => /\ NothingStarted
               /\ pc \in {"smart_check", "parallel_check", "raised"}
               /\ pc = "raised" => exc = GpuError
    /\ exc = GpuError => NothingStarted /\ pc = "raised"

C7_Witness ==
    /\ ~gpu /\ pc = "raised" /\ exc = GpuError
    /\ Len(tasks) >= 2

(* C8: with zero tasks and the encoder detected, process_videos_smart      *)
(* returns the empty result at once: the one subprocess launched is the    *)
(* encoder check, and no pool is built.                                    *)
C8_EmptyBatch ==
    (entry = "smart" /\ Len(tasks) = 0) =>
        /\ pc \in {"smart_check", "empty", "returned", "raised"}
        /\ gpu_checks <= 1 /\ ~executor /\ launched = {}
        /\ pc = "raised" => exc = GpuError
        /\ pc = "returned" =>
              /\ ret.results = <<>>
              /\ ret.successful_count = 0
              /\ ret.failed_count = 0
              /\ gpu_checks = 1

C8_Witness ==
    /\ entry = "smart" /\ Len(tasks) = 0 /\ pc = "returned"
    /\ ret.results = <<>>

(* C9: process_videos_smart picks its mode from the task count alone: one  *)
(* task runs in the calling thread, without a pool, tagged 'single_gpu';   *)
(* two or more go to the pool, tagged 'parallel_gpu'.                      *)
C9_ModeFromCount ==
    entry = "smart" =>
        /\ Len(tasks) = 1 =>
              /\ ~executor
              /\ ranBy[1] \in {"nobody", "caller"}
              /\ pc = "returned" =>
                    ranBy[1] = "caller" /\ ret.processing_mode = "single_gpu"
        /\ Len(tasks) >= 2 =>
              /\ \A i \in 1..Len(tasks) : ranBy[i] \in {"nobody", "worker"}
              /\ pc = "returned" =>
                    /\ executor
                    /\ \A i \in 1..Len(tasks) : ranBy[i] = "worker"
                    /\ ret.processing_mode = "parallel_gpu"

(* One task with two workers requested   runs in the caller.               *)
C9_Witness ==
    /\ entry = "smart" /\ Len(tasks) = 1 /\ requested = 2
    /\ pc = "returned" /\ ranBy[1] = "caller"
    /\ ret.processing_mode = "single_gpu"

----------------------------------------------------------------------------
(* The duration matcher: loop_video_to_match_audio run by pool workers,    *)
(* one step at a time.  step[t] is the step task t is executing; a step's  *)
(* files are written when it ends.  Durations are whole time units.        *)

MaxDur == 25       \* durations of 1..MaxDur units for a task run alone
MaxDuoDur == 2     \* durations of 1..MaxDuoDur units for two tasks at once

Layouts == {"separate", "same_dir", "same_dir_same_video"}

(* The layout of the story pipeline, whose uploaded videos lie in the      *)
(* directory the matcher writes to: here the video is that directory's     *)
(* temp_looped.mp4.                                                        *)
SoloLayouts == {"separate", "video_in_output_dir"}

(* Path(output_path).parent and Path(video_path).name of task t.           *)
Dir(t) == IF layout = "separate" THEN t ELSE 1
VideoName(t) == IF layout = "same_dir_same_video" THEN 1 ELSE t

SourceVideo(t) ==
    IF layout = "video_in_output_dir" THEN <<Dir(t), "temp_looped.mp4", 0>>
                                      ELSE <<0, "video", VideoName(t)>>
SourceAudio(t) == <<0, "audio", t>>
OutputFile(t) == <<Dir(t), "output", t>>
(* Lines 175, 200, 205, 213: the intermediate files are named after the    *)
(* output directory, not after the task.                                   *)
ScaledFile(t) == <<Dir(t), "scaled_input_", VideoName(t)>>
ConcatFile(t) == <<Dir(t), "concat_list.txt", 0>>
LoopedFile(t) == <<Dir(t), "temp_looped.mp4", 0>>
TrimmedFile(t) == <<Dir(t), "temp_trimmed.mp4", 0>>

Intermediates(t) ==
    {ScaledFile(t), ConcatFile(t), LoopedFile(t), TrimmedFile(t)}

(* scale_video_to_1080p returns the input path when it is 1920x1080.       *)
ProcessedVideo(t) == IF jobs[t].hd THEN SourceVideo(t) ELSE ScaledFile(t)

(* Line 183.                                                               *)
DirectCombine_strict(audio_dur, video_dur) == audio_dur < video_dur

DirectCombine(audio_dur, video_dur) == audio_dur <= video_dur

(* Line 197: int() of a positive quotient is its floor.                    *)
loops_needed_no_extra(audio_dur, video_dur) == audio_dur \div video_dur

loops_needed(audio_dur, video_dur) == (audio_dur \div video_dur) + 1

IsDirect(t) == DirectCombine(jobs[t].audio_dur, jobs[t].video_dur)

(* The steps in the order of the code.                                     *)
StepOrder ==
    <<"probe_res", "scale", "probe_video", "probe_audio", "write_list",
      "concat", "trim", "combine">>

(* The files a step reads, and the files it writes or deletes.             *)
CleanupList(t) ==
    IF IsDirect(t)
    THEN IF jobs[t].hd THEN <<>> ELSE <<ScaledFile(t)>>
    ELSE <<ConcatFile(t), LoopedFile(t), TrimmedFile(t)>>
         \o (IF jobs[t].hd THEN <<>> ELSE <<ScaledFile(t)>>)

Reads(t, s) ==
    CASE s = "probe_res"   -> {SourceVideo(t)}
      [] s = "scale"       -> {SourceVideo(t)}
      [] s = "probe_video" -> {ProcessedVideo(t)}
      [] s = "probe_audio" -> {SourceAudio(t)}
      [] s = "concat"      -> {ConcatFile(t), ProcessedVideo(t)}
      [] s = "trim"        -> {LoopedFile(t)}
      [] s = "combine"     -> {SourceAudio(t),
                               IF IsDirect(t) THEN ProcessedVideo(t)
                                              ELSE TrimmedFile(t)}
      [] OTHER             -> {}

Writes(t, s) ==
    CASE s = "scale"      -> {ScaledFile(t)}
      [] s = "write_list" -> {ConcatFile(t)}
      [] s = "concat"     -> {LoopedFile(t)}
      [] s = "trim"       -> {TrimmedFile(t)}
      [] s = "combine"    -> {OutputFile(t)}
      [] s = "cleanup"    -> {CleanupList(t)[k] : k \in 1..Len(CleanupList(t))}
      [] OTHER            -> {}

(* The caller's media outside the output directories (directory 0) are    *)
(* there; a step whose input in an output directory is gone fails, any     *)
(* other subprocess may fail.                                              *)
InputsThere(t, s) == \A f \in Reads(t, s) : f[1] = 0 \/ f \in storage

StepResults(t, s) ==
    IF s = "write_list" THEN {TRUE}
    ELSE IF InputsThere(t, s) THEN {TRUE, FALSE}
    ELSE {FALSE}

(* Where the code goes after step s: every failed step raises at once.     *)
AfterStep_unchecked_concat(t, s, ok) ==
    IF ~ok /\ s # "concat" THEN "failed"
    ELSE CASE s = "probe_res"   -> IF jobs[t].hd THEN "probe_video"
                                                  ELSE "scale"
           [] s = "scale"       -> "probe_video"
           [] s = "probe_video" -> "probe_audio"
           [] s = "probe_audio" -> IF IsDirect(t) THEN "combine"
                                                  ELSE "write_list"
           [] s = "write_list"  -> "concat"
           [] s = "concat"      -> "trim"
           [] s = "trim"        -> "combine"
           [] OTHER             -> "cleanup"

AfterStep_retry(t, s, ok) ==
    IF ~ok THEN "queued"
    ELSE CASE s = "probe_res"   -> IF jobs[t].hd THEN "probe_video"
                                                  ELSE "scale"
           [] s = "scale"       -> "probe_video"
           [] s = "probe_video" -> "probe_audio"
           [] s = "probe_audio" -> IF IsDirect(t) THEN "combine"
                                                  ELSE "write_list"
           [] s = "write_list"  -> "concat"
           [] s = "concat"      -> "trim"
           [] s = "trim"        -> "combine"
           [] OTHER             -> "cleanup"

AfterStep(t, s, ok) ==
    IF ~ok THEN "failed"
    ELSE CASE s = "probe_res"   -> IF jobs[t].hd THEN "probe_video"
                                                  ELSE "scale"
           [] s = "scale"       -> "probe_video"
           [] s = "probe_video" -> "probe_audio"
           [] s = "probe_audio" -> IF IsDirect(t) THEN "combine"
                                                  ELSE "write_list"
           [] s = "write_list"  -> "concat"
           [] s = "concat"      -> "trim"
           [] s = "trim"        -> "combine"
           [] OTHER             -> "cleanup"

(* Lines 187-191 and 225-232: the unlinks run in order inside one try, so  *)
(* the first file that is missing ends the cleanup.                        *)
CleanupDeletes(t, files) ==
    LET L == CleanupList(t)
    IN  {L[k] : k \in {n \in 1..Len(L) : \A j \in 1..n : L[j] \in files}}

NoOutcome == [resolved |-> FALSE]
MatcherReturned(path) ==
    [resolved |-> TRUE, status |-> "success", output_path |-> Some(path)]
MatcherRaised ==
    [resolved |-> TRUE, status |-> "failed", output_path |-> None]

JobSet(maxdur) ==
    [video_dur : 1..maxdur, audio_dur : 1..maxdur, hd : BOOLEAN]

MatcherStart ==
    /\ step = [t \in DOMAIN jobs |-> "queued"]
    /\ trace = [t \in DOMAIN jobs |-> <<>>]
    /\ loops = [t \in DOMAIN jobs |-> 0]
    /\ outcome = [t \in DOMAIN jobs |-> NoOutcome]
    /\ starts = [t \in DOMAIN jobs |-> 0]
    /\ failed_steps = [t \in DOMAIN jobs |-> {}]
    /\ storage = {f \in {SourceVideo(t) : t \in DOMAIN jobs} : f[1] # 0}
    /\ touched = {}

(* One task alone, or two tasks at once in any layout.                     *)
MatcherInit ==
    /\ \/ jobs \in [1..1 -> JobSet(MaxDur)] /\ layout \in SoloLayouts
       \/ jobs \in [1..2 -> JobSet(MaxDuoDur)] /\ layout \in Layouts
    /\ MatcherStart
    /\ SchedulerIdle
    /\ OverlayIdle /\ ChunkerIdle /\ RestIdle

scheduler ==
    <<inputs, max_workers, pc, gpu_checks, pool, taskrun, results,
      completed_count, ret, exc>>

(* A worker takes the task: process_single_video_task calls                *)
(* loop_video_to_match_audio, whose first subprocess probes the resolution.*)
MatcherBegin(t) ==
    /\ step[t] = "queued"
    /\ starts' = [starts EXCEPT ![t] = @ + 1]
    /\ step' = [step EXCEPT ![t] = "probe_res"]
    /\ trace' = [trace EXCEPT ![t] = Append(@, "probe_res")]
    /\ UNCHANGED <<jobs, layout, loops, storage, outcome, failed_steps,
                   touched, scheduler, overlay, chunker,
                   rest>>

(* The step task t is executing ends.  A successful step has written its   *)
(* file; a failed one is taken to leave nothing behind, the case most      *)
(* favourable to the cleanup.  Then the next step is launched, or the call *)
(* raises into process_single_video_task.                                  *)
MatcherStep(t) ==
    /\ step[t] \in {StepOrder[k] : k \in 1..Len(StepOrder)}
    /\ \E ok \in StepResults(t, step[t]) :
         LET s == step[t]
             nxt == AfterStep(t, s, ok)
         IN  /\ storage' = IF ok THEN storage \cup Writes(t, s)
                                 ELSE storage
             /\ touched' = IF ok THEN touched \cup Writes(t, s)
                                 ELSE touched
             /\ step' = [step EXCEPT ![t] = nxt]
             /\ trace' = [trace EXCEPT ![t] =
                             IF nxt \in {"failed", "cleanup", "queued"}
                             THEN @ ELSE Append(@, nxt)]
             /\ loops' = [loops EXCEPT ![t] =
                             IF s = "write_list"
                             THEN loops_needed(jobs[t].audio_dur,
                                               jobs[t].video_dur)
                             ELSE @]
             /\ outcome' = [outcome EXCEPT ![t] =
                               IF nxt = "failed" THEN MatcherRaised ELSE @]
             /\ failed_steps' = [failed_steps EXCEPT ![t] =
                                    IF ok THEN @ ELSE @ \cup {s}]
    /\ UNCHANGED <<jobs, layout, starts, scheduler, overlay, chunker,
                   rest>>

(* The cleanup at the end of a successful call, then the return.           *)
MatcherCleanup(t) ==
    /\ step[t] = "cleanup"
    /\ storage' = storage \ CleanupDeletes(t, storage)
    /\ touched' = touched \cup CleanupDeletes(t, storage)
    /\ step' = [step EXCEPT ![t] = "success"]
    /\ outcome' = [outcome EXCEPT ![t] = MatcherReturned(OutputFile(t))]
    /\ UNCHANGED <<jobs, layout, trace, loops, starts, failed_steps,
                   scheduler, overlay, chunker,
                   rest>>

MatcherNext ==
    \/ \E t \in DOMAIN jobs : MatcherBegin(t)
    \/ \E t \in DOMAIN jobs : MatcherStep(t)
    \/ \E t \in DOMAIN jobs : MatcherCleanup(t)

MatcherSpec == MatcherInit /\ [][MatcherNext]_vars

----------------------------------------------------------------------------
(* Vocabulary of the duration matcher's properties.                        *)

Resolved(t) == outcome[t].resolved
Launched(t, s) == \E k \in 1..Len(trace[t]) : trace[t][k] = s
Count(t, s) == Cardinality({k \in 1..Len(trace[t]) : trace[t][k] = s})
Pos(s) == CHOOSE k \in 1..Len(StepOrder) : StepOrder[k] = s

(* C11: when loop_video_to_match_audio has resolved, by return or by       *)
(* raise, none of its intermediate files (concat list, looped temp,        *)
(* trimmed temp, scaled temp) remains on storage.                          *)
C11_NoIntermediateRemains ==
    (\A t \in DOMAIN jobs : Resolved(t)) =>
        \A t \in DOMAIN jobs : Intermediates(t) \cap storage = {}

(* C12: two concurrent tasks with distinct output paths never have one     *)
(* writing or deleting a file that the other is reading or writing.        *)
C12_NoSharedFile ==
    \A a, b \in DOMAIN jobs :
        (a # b /\ OutputFile(a) # OutputFile(b)) =>
            Writes(a, step[a])
              \cap (Reads(b, step[b]) \cup Writes(b, step[b])) = {}

(* C13: whenever audio_duration <= video_duration the direct-combine       *)
(* branch is taken: the concat and trim steps are never invoked and a      *)
(* call that returns has run exactly one combine pass; the loop path is    *)
(* taken only when audio_duration > video_duration.                        *)
C13_DirectCombine ==
    \A t \in DOMAIN jobs :
        /\ jobs[t].audio_dur <= jobs[t].video_dur =>
              /\ ~Launched(t, "write_list")
              /\ ~Launched(t, "concat")
              /\ ~Launched(t, "trim")
              /\ Count(t, "combine") <= 1
              /\ step[t] = "success" => Count(t, "combine") = 1
        /\ (Launched(t, "concat") \/ Launched(t, "trim")) =>
              jobs[t].audio_dur > jobs[t].video_dur

(* A video exactly as long as the audio, combined in one pass.             *)
C13_Witness ==
    \E t \in DOMAIN jobs :
        /\ jobs[t].audio_dur = jobs[t].video_dur
        /\ step[t] = "success"
        /\ Count(t, "combine") = 1

(* C14: on the loop path the loop count is floor(audio / video) + 1: it is *)
(* at least 1, the looped video is at least as long as the audio, one loop *)
(* fewer would not exceed the audio, and video 10, audio 25 gives 3.       *)
C14_LoopCount ==
    \A t \in DOMAIN jobs :
        Launched(t, "concat") =>
            /\ loops[t] >= 1
            /\ loops[t] * jobs[t].video_dur >= jobs[t].audio_dur
            /\ (loops[t] - 1) * jobs[t].video_dur <= jobs[t].audio_dur
            /\ (jobs[t].video_dur = 10 /\ jobs[t].audio_dur = 25) =>
                  loops[t] = 3

C14_Witness ==
    \E t \in DOMAIN jobs :
        /\ jobs[t].video_dur = 10 /\ jobs[t].audio_dur = 25
        /\ Launched(t, "concat")
        /\ loops[t] = 3

(* C15: the steps are launched in the fixed order scale, probe, concat,    *)
(* trim, combine; a step that fails raises at once: nothing is launched    *)
(* after it and the caller gets no output path.                            *)
C15_FailFast ==
    /\ [](\A t \in DOMAIN jobs :
            /\ \A j, k \in 1..Len(trace[t]) :
                  j < k => Pos(trace[t][j]) < Pos(trace[t][k])
            /\ failed_steps[t] # {} =>
                  /\ step[t] = "failed"
                  /\ failed_steps[t] = {trace[t][Len(trace[t])]}
                  /\ outcome[t].resolved
                  /\ outcome[t].status = "failed"
                  /\ outcome[t].output_path = None)
    /\ [][\A t \in DOMAIN jobs :
            failed_steps[t] # {} =>
                trace'[t] = trace[t] /\ outcome'[t] = outcome[t]]_vars

(* The trim failed after a successful concat; nothing followed.            *)
C15_Witness ==
    \E t \in DOMAIN jobs :
        /\ failed_steps[t] = {"trim"}
        /\ step[t] = "failed"
        /\ ~Launched(t, "combine")

(* C16: nothing retries: a task is started at most once, each of its steps *)
(* is invoked at most once, and once it has a result, failed or not, it is *)
(* never started and launches nothing again.                               *)
C16_NoRetry ==
    /\ [](\A t \in DOMAIN jobs :
            /\ starts[t] <= 1
            /\ \A k \in 1..Len(StepOrder) : Count(t, StepOrder[k]) <= 1)
    /\ [][\A t \in DOMAIN jobs :
            Resolved(t) =>
                /\ starts'[t] = starts[t]
                /\ trace'[t] = trace[t]
                /\ outcome'[t] = outcome[t]]_vars

(* A task that failed in its combine pass and stays failed.                *)
C16_Witness ==
    \E t \in DOMAIN jobs :
        /\ Resolved(t) /\ outcome[t].status = "failed"
        /\ failed_steps[t] = {"combine"}
        /\ starts[t] = 1

----------------------------------------------------------------------------
(* The overlay compositor's window: apply_video_overlay_smart, lines       *)
(* 70-98.  Times are whole seconds.                                        *)

MaxTicks == 3      \* times of 0, 30, .. 30 * MaxTicks seconds

TimeVals == {30 * k : k \in 0..MaxTicks}

(* "bogus" stands for any value that is neither of the three names.        *)
TimingModes == {"full_duration", "overlay_duration", "custom_time", "bogus"}

(* Lines 74-82: the window before the clamp.                               *)
ResolveStart(mode, start_time) ==
    IF mode = "full_duration" THEN 0 ELSE start_time

ResolveEnd_no_default(mode, start_time, end_time, main_dur, overlay_dur) ==
    IF mode = "full_duration" THEN main_dur
    ELSE IF mode = "overlay_duration" THEN start_time + overlay_dur
    ELSE IF end_time # None THEN end_time[1] ELSE start_time

ResolveEnd(mode, start_time, end_time, main_dur, overlay_dur) ==
    IF mode = "full_duration" THEN main_dur
    ELSE IF mode = "overlay_duration" THEN start_time + overlay_dur
    ELSE IF end_time # None THEN end_time[1] ELSE main_dur

(* Line 85.                                                                *)
ClampEnd_none(actual_end, main_dur) == actual_end

ClampEnd(actual_end, main_dur) == Min(actual_end, main_dur)

ProbeFailed == [resolved |-> FALSE, raised |-> TRUE]

(* The call: any mode, any requested start and end, and what the two       *)
(* probes of lines 70-71 will report.                                      *)
OverlayInit ==
    /\ overlay_call \in
          [called : {TRUE},
           timing_mode : TimingModes,
           start_time : TimeVals,
           end_time : {None} \cup {Some(e) : e \in TimeVals},
           main_duration : TimeVals \ {0},
           overlay_duration : TimeVals \ {0}]
    /\ window = NoWindow
    /\ MatcherIdle /\ ChunkerIdle /\ RestIdle
    /\ SchedulerIdle

(* Lines 70-98: both probes succeed and the window handed to               *)
(* _apply_overlay_full_encode is resolved.                                 *)
OverlayResolve ==
    /\ window = NoWindow
    /\ LET c == overlay_call
           s == ResolveStart(c.timing_mode, c.start_time)
           e == ResolveEnd(c.timing_mode, c.start_time, c.end_time,
                           c.main_duration, c.overlay_duration)
       IN  window' =
              [resolved |-> TRUE,
               actual_start |-> s,
               unclamped_end |-> e,
               actual_end |-> ClampEnd(e, c.main_duration),
               overlay_segment_duration |->
                   ClampEnd(e, c.main_duration) - s]
    /\ UNCHANGED <<overlay_call, matcher, chunker, rest, scheduler>>

(* Lines 70-71: a probe fails and get_video_duration raises.               *)
OverlayProbeError ==
    /\ window = NoWindow
    /\ window' = ProbeFailed
    /\ UNCHANGED <<overlay_call, matcher, chunker, rest, scheduler>>

OverlayNext == OverlayResolve \/ OverlayProbeError

OverlaySpec == OverlayInit /\ [][OverlayNext]_vars

----------------------------------------------------------------------------
(* C17: in every timing mode and for every requested start and end, the    *)
(* resolved window end is at most the primary video's duration; a primary  *)
(* of 60 s with a requested end of 90 s resolves to 60.                    *)
C17_EndClamped ==
    window.resolved =>
        /\ window.actual_end <= overlay_call.main_duration
        /\ (/\ overlay_call.timing_mode = "custom_time"
            /\ overlay_call.main_duration = 60
            /\ overlay_call.end_time = Some(90)) => window.actual_end = 60

C17_Witness ==
    /\ window.resolved
    /\ overlay_call.timing_mode = "custom_time"
    /\ overlay_call.main_duration = 60
    /\ overlay_call.end_time = Some(90)
    /\ window.actual_end = 60

(* C18: before the clamp, full_duration gives [0, primary) whatever start  *)
(* and end were requested; overlay_duration gives [start, start + the      *)
(* overlay's own duration) whatever end was requested; custom_time and any *)
(* other mode value give [start, end), end being the primary's duration    *)
(* when none is given.                                                     *)
C18_WindowByMode ==
    window.resolved =>
        LET c == overlay_call
        IN  /\ c.timing_mode = "full_duration" =>
                  /\ window.actual_start = 0
                  /\ window.unclamped_end = c.main_duration
            /\ c.timing_mode = "overlay_duration" =>
                  /\ window.actual_start = c.start_time
                  /\ window.unclamped_end = c.start_time + c.overlay_duration
            /\ c.timing_mode \notin {"full_duration", "overlay_duration"} =>
                  /\ window.actual_start = c.start_time
                  /\ c.end_time = None =>
                        window.unclamped_end = c.main_duration
                  /\ c.end_time # None =>
                        window.unclamped_end = c.end_time[1]

(* An unknown mode with no end given falls back to [start, primary).       *)
C18_Witness ==
    /\ window.resolved
    /\ overlay_call.timing_mode = "bogus"
    /\ overlay_call.end_time = None
    /\ overlay_call.start_time = 30
    /\ window.actual_start = 30
    /\ window.unclamped_end = overlay_call.main_duration

(* C19: the window handed to the filter graph is well formed and inside    *)
(* the primary video's timeline: 0 <= start <= end <= primary duration.    *)
C19_WindowWellFormed ==
    window.resolved =>
        /\ 0 <= window.actual_start
        /\ window.actual_start <= window.actual_end
        /\ window.actual_end <= overlay_call.main_duration

----------------------------------------------------------------------------
(* The Subtitle Track Builder's chunking: chunk_text_by_words.  A text is  *)
(* a sequence of characters, a letter or a blank.                          *)

MaxTextLen == 11        \* texts of up to MaxTextLen characters
DefaultMaxWords == 5    \* the max_words default, the value the caller uses

Chars == {"a", " "}

(* str.split(): the maximal runs of non-blank characters.                  *)
RECURSIVE SplitWords(_, _)
SplitWords(txt, word) ==
    IF txt = <<>>
    THEN IF word = <<>> THEN <<>> ELSE <<word>>
    ELSE IF Head(txt) = " "
    THEN IF word = <<>> THEN SplitWords(Tail(txt), <<>>)
                        ELSE <<word>> \o SplitWords(Tail(txt), <<>>)
    ELSE SplitWords(Tail(txt), Append(word, Head(txt)))

split(txt) == SplitWords(txt, <<>>)

(* ' '.join(words).                                                        *)
RECURSIVE join(_)
join(words) ==
    IF words = <<>> THEN <<>>
    ELSE IF Len(words) = 1 THEN words[1]
    ELSE words[1] \o <<" ">> \o join(Tail(words))

(* Line 22: the current chunk is flushed once it holds max_words words.    *)
ChunkFull_late(current_chunk, limit) == Len(current_chunk) > limit

ChunkFull(current_chunk, limit) == Len(current_chunk) >= limit

(* Lines 20-27: the loop over the words, and the remainder after it.       *)
RECURSIVE ChunkLoop(_, _, _, _)
ChunkLoop(words, current_chunk, acc, limit) ==
    IF words = <<>>
    THEN IF current_chunk # <<>> THEN Append(acc, join(current_chunk))
                                 ELSE acc
    ELSE LET grown == Append(current_chunk, Head(words))
         IN  IF ChunkFull(grown, limit)
             THEN ChunkLoop(Tail(words), <<>>, Append(acc, join(grown)),
                            limit)
             ELSE ChunkLoop(Tail(words), grown, acc, limit)

chunk_text_by_words(txt, limit) == ChunkLoop(split(txt), <<>>, <<>>, limit)

ChunkerInit ==
    /\ \E n \in 0..MaxTextLen : text \in [1..n -> Chars]
    /\ max_words \in 1..DefaultMaxWords
    /\ chunks = NotChunked
    /\ MatcherIdle /\ OverlayIdle /\ RestIdle
    /\ SchedulerIdle

(* The call.                                                               *)
Chunk ==
    /\ chunks = NotChunked
    /\ chunks' = [done |-> TRUE,
                  list |-> chunk_text_by_words(text, max_words)]
    /\ UNCHANGED <<text, max_words, matcher, overlay, rest, scheduler>>

ChunkerNext == Chunk

ChunkerSpec == ChunkerInit /\ [][ChunkerNext]_vars

----------------------------------------------------------------------------
(* The words of the chunks, one after the other.                           *)
RECURSIVE WordsOf(_)
WordsOf(list) ==
    IF list = <<>> THEN <<>> ELSE split(list[1]) \o WordsOf(Tail(list))

----------------------------------------------------------------------------
(* The Subtitle Track Builder's timestamps: format_timestamp_ass.  The     *)
(* seconds argument is counted in thousandths of a second; the returned    *)
(* text is a sequence of characters.                                       *)

MaxHours == 1      \* arguments below MaxHours + 1 hours

(* The minutes and whole seconds, and the thousandths, of the arguments.   *)
SixtyVals == {0, 1, 59}
Thousandths == {0, 4, 5, 6, 250, 994, 995, 996, 999}

DigitChars == <<"0", "1", "2", "3", "4", "5", "6", "7", "8", "9">>
Digit(d) == DigitChars[d + 1]

(* str of a non-negative int: {hours}.                                     *)
RECURSIVE Decimal(_)
Decimal(n) ==
    IF n < 10 THEN <<Digit(n)>> ELSE Decimal(n \div 10) \o <<Digit(n % 10)>>

(* {n:02d}: at least two digits.                                           *)
Pad2(n) == IF n < 10 THEN <<"0">> \o Decimal(n) ELSE Decimal(n)

(* The hundredths that .2f prints for ms thousandths: the nearest          *)
(* hundredth.  The argument is a binary float, so a value written with a   *)
(* final 5 lies just above or just below the midpoint (or on it, where     *)
(* the tie goes to the even digit): up tells which way it goes.            *)
RoundCenti(ms, up) ==
    IF ms % 10 < 5 THEN ms \div 10
    ELSE IF ms % 10 > 5 THEN ms \div 10 + 1
    ELSE IF up THEN ms \div 10 + 1 ELSE ms \div 10

(* {secs:05.2f}: two decimals, zero-padded to a width of five.             *)
Fixed2(ms, up) ==
    LET c == RoundCenti(ms, up)
    IN  Pad2(c \div 100) \o <<".">> \o <<Digit((c % 100) \div 10),
                                         Digit(c % 10)>>

(* Line 76.                                                                *)
SecsOf(ms) == ms % 60000

(* Lines 74-77.                                                            *)
format_timestamp_ass(ms, up) ==
    LET hours == ms \div 3600000
        minutes == (ms % 3600000) \div 60000
        secs == SecsOf(ms)
    IN  Decimal(hours) \o <<":">> \o Pad2(minutes) \o <<":">>
            \o Fixed2(secs, up)

TimestampInit ==
    /\ \E h \in 0..MaxHours, m \in SixtyVals, sec \in SixtyVals,
          f \in Thousandths :
          seconds = h * 3600000 + m * 60000 + sec * 1000 + f
    /\ stamp = NotFormatted
    /\ MatcherIdle /\ OverlayIdle /\ ChunkerIdle
    /\ TranscriberIdle /\ DialogueIdle /\ AppsIdle
    /\ SchedulerIdle

(* The call.                                                               *)
Format ==
    /\ stamp = NotFormatted
    /\ \E up \in BOOLEAN :
         stamp' = [done |-> TRUE, text |-> format_timestamp_ass(seconds, up)]
    /\ UNCHANGED <<seconds, matcher, overlay, chunker, transcriber,
                   dialogue, apps, scheduler>>

TimestampNext == Format

TimestampSpec == TimestampInit /\ [][TimestampNext]_vars

----------------------------------------------------------------------------
(* Reading a timestamp text back: H..H:MM:SS.cc, the last ten characters   *)
(* having fixed places.                                                    *)
IsDigit(ch) == \E d \in 0..9 : Digit(d) = ch
Val(ch) == CHOOSE d \in 0..9 : Digit(d) = ch
Two(t, k) == Val(t[k]) * 10 + Val(t[k + 1])

WellFormedStamp(t) ==
    LET n == Len(t)
    IN  /\ n >= 10
        /\ t[n - 2] = "." /\ t[n - 5] = ":" /\ t[n - 8] = ":"
        /\ \A k \in (1..n) \ {n - 2, n - 5, n - 8} : IsDigit(t[k])

MinutesField(t) == Two(t, Len(t) - 7)
SecondsField(t) == Two(t, Len(t) - 4)

(* C22: for every non-negative argument the result is a well-formed        *)
(* H:MM:SS.cc text whose minutes and seconds fields are in 00..59;         *)
(* 3661.25 gives 1:01:01.25, 59.999 gives 0:00:59.99 or 0:01:00.00, and    *)
(* 0, 3599.999 and 3600.0 give 0:00:00.00, 0:59:59.99 or 1:00:00.00, and   *)
(* 1:00:00.00.                                                             *)
C22_ValidTimestamp ==
    stamp.done =>
        LET t == stamp.text
        IN  /\ WellFormedStamp(t)
            /\ MinutesField(t) \in 0..59
            /\ SecondsField(t) \in 0..59
            /\ seconds = 3661250 =>
                  t = <<"1", ":", "0", "1", ":", "0", "1", ".", "2", "5">>
            /\ seconds = 59999 =>
                  t \in {<<"0", ":", "0", "0", ":", "5", "9", ".", "9", "9">>,
                         <<"0", ":", "0", "1", ":", "0", "0", ".", "0", "0">>}
            /\ seconds = 0 =>
                  t = <<"0", ":", "0", "0", ":", "0", "0", ".", "0", "0">>
            /\ seconds = 3599999 =>
                  t \in {<<"0", ":", "5", "9", ":", "5", "9", ".", "9", "9">>,
                         <<"1", ":", "0", "0", ":", "0", "0", ".", "0", "0">>}
            /\ seconds = 3600000 =>
                  t = <<"1", ":", "0", "0", ":", "0", "0", ".", "0", "0">>

----------------------------------------------------------------------------
(* Floating-point arithmetic.  Python floats are binary floating-point     *)
(* numbers: every operation returns the representable number nearest to    *)
(* the exact result, ties going to the even significand.  The model keeps  *)
(* that rule with a significand of Precision bits.  A number is counted in *)
(* units of the smallest spacing; SecondUnits units make one second, and   *)
(* the times the speech model reports are multiples of Grain, which keeps  *)
(* every quotient below a full significand, as it is for the doubles of a  *)
(* real transcript.                                                        *)

Precision == 4          \* bits of the significand

Grain == 2^(Precision + 2)
SecondUnits == 2^(Precision + 5)
MaxExp == 2 * Precision + 12

(* The exponent of the rational num / den: its significand, num / den      *)
(* over 2^e, has at most Precision bits.                                   *)
ExpOf(num, den) ==
    CHOOSE e \in 0..MaxExp :
        /\ num < 2^(Precision + e) * den
        /\ e > 0 => num >= 2^(Precision + e - 1) * den

(* The integer nearest to a / b, the even one of two equally near.         *)
NearestEven(a, b) ==
    LET q == a \div b
        r == a % b
    IN  IF 2 * r < b THEN q
        ELSE IF 2 * r > b THEN q + 1
        ELSE IF q % 2 = 0 THEN q ELSE q + 1

(* The representable number nearest to num / den.                          *)
Rnd(num, den) ==
    LET e == ExpOf(num, den)
    IN  NearestEven(num, den * 2^e) * 2^e

Representable(x) == Rnd(x, 1) = x

(* The spacing of the representable numbers at x.                          *)
Ulp(x) == 2^ExpOf(x, 1)

FAdd(a, b) == Rnd(a + b, 1)
FSub(a, b) == Rnd(a - b, 1)
FMul(k, a) == Rnd(k * a, 1)
FDiv(a, n) == Rnd(a, n)

(* The times of a transcript: the representable multiples of Grain up to   *)
(* eight seconds.                                                          *)
CaptionTimes ==
    {m * Grain : m \in {x \in 0..(2^(Precision + 2)) : Representable(x)}}

----------------------------------------------------------------------------
(* transcribe_audio, lines 41-70.                                          *)

MaxSegWords == 11       \* words of one segment: up to three chunks

(* A segment's text of w words, with the blanks the speech model puts      *)
(* around it.                                                              *)
SegText(w) == <<" ">> \o join([k \in 1..w |-> <<"a">>]) \o <<" ">>

(* str.strip().                                                            *)
Strip(txt) ==
    LET solid == {k \in 1..Len(txt) : txt[k] # " "}
    IN  IF solid = {} THEN <<>>
        ELSE SubSeq(txt, CHOOSE k \in solid : \A j \in solid : k <= j,
                         CHOOSE k \in solid : \A j \in solid : k >= j)

(* Lines 53-54.                                                            *)
ChunkDuration_per_word(segment_duration, count) ==
    FDiv(segment_duration, count * DefaultMaxWords)

ChunkDuration(segment_duration, count) == FDiv(segment_duration, count)

(* Lines 57-58, i counting from 0.                                         *)
ChunkStart(seg_start, i, chunk_duration) ==
    FAdd(seg_start, FMul(i, chunk_duration))

ChunkEnd(chunk_start, chunk_duration) == FAdd(chunk_start, chunk_duration)

(* Lines 45-64: the entries one segment adds to chunked_segments.          *)
SegmentChunks(seg) ==
    LET cs == chunk_text_by_words(Strip(seg.text), DefaultMaxWords)
        chunk_duration == ChunkDuration(FSub(seg.end, seg.start), Len(cs))
    IN  [k \in 1..Len(cs) |->
            LET chunk_start == ChunkStart(seg.start, k - 1, chunk_duration)
            IN  [start |-> chunk_start,
                 end |-> ChunkEnd(chunk_start, chunk_duration),
                 text |-> cs[k]]]

(* One segment of any span and any number of words, or two segments of     *)
(* two chunks each, the second beginning where the first ends.             *)
TranscriberInit ==
    /\ \/ \E a, b \in CaptionTimes, w \in 0..MaxSegWords :
            /\ a <= b
            /\ segments = <<[start |-> a, end |-> b, text |-> SegText(w)]>>
       \/ \E a, b, c \in CaptionTimes :
            /\ a < b /\ b < c
            /\ segments =
                  <<[start |-> a, end |-> b,
                     text |-> SegText(DefaultMaxWords + 1)],
                    [start |-> b, end |-> c,
                     text |-> SegText(DefaultMaxWords + 1)]>>
    /\ seg_pos = 0 /\ chunked_segments = <<>> /\ origin = <<>>
    /\ full_text = <<>> /\ transcript = NotTranscribed
    /\ MatcherIdle /\ OverlayIdle /\ ChunkerIdle
    /\ TimestampIdle /\ DialogueIdle /\ AppsIdle
    /\ SchedulerIdle

(* Lines 44-64: one turn of the loop over the segments.                    *)
TranscribeSegment ==
    /\ seg_pos < Len(segments)
    /\ LET seg == segments[seg_pos + 1]
           new == SegmentChunks(seg)
       IN  /\ full_text' = Append(full_text, Strip(seg.text))
           /\ chunked_segments' = chunked_segments \o new
           /\ origin' = origin \o [k \in 1..Len(new) |-> seg_pos + 1]
    /\ seg_pos' = seg_pos + 1
    /\ UNCHANGED <<segments, transcript, matcher, overlay, chunker,
                   timestamps, dialogue, apps, scheduler>>

(* Lines 66-70.                                                            *)
TranscribeReturn ==
    /\ seg_pos = Len(segments)
    /\ transcript = NotTranscribed
    /\ transcript' = [returned |-> TRUE, text |-> join(full_text),
                      segments |-> chunked_segments,
                      language |-> "info.language"]
    /\ UNCHANGED <<segments, seg_pos, chunked_segments, origin, full_text,
                   matcher, overlay, chunker, timestamps, dialogue,
                   apps, scheduler>>

TranscriberNext == TranscribeSegment \/ TranscribeReturn

TranscriberSpec == TranscriberInit /\ [][TranscriberNext]_vars

----------------------------------------------------------------------------
(* The chunks of segment g, by their places in chunked_segments.           *)
ChunksOf(g) == {k \in 1..Len(chunked_segments) : origin[k] = g}

Abs(x) == IF x < 0 THEN 0 - x ELSE x

RECURSIVE DurationSum(_)
DurationSum(ks) ==
    IF ks = {} THEN 0
    ELSE LET k == CHOOSE j \in ks : TRUE
         IN  chunked_segments[k].end - chunked_segments[k].start
                 + DurationSum(ks \ {k})

(* The rounding error a chunk boundary can carry: four spacings of the     *)
(* representable numbers at the segment's end.                             *)
Tolerance(seg) == 4 * Ulp(seg.end)

(* The partition of segment g, each equality holding up to err.            *)
Partition(g, err) ==
    LET seg == segments[g]
        ks == ChunksOf(g)
        count == Cardinality(ks)
        span == seg.end - seg.start
        c == chunked_segments
    IN  \A k \in ks :
           /\ (k - 1 \notin ks) => c[k].start = seg.start
           /\ (k + 1 \in ks) =>
                 /\ Abs(c[k + 1].start - c[k].end) <= err
                 /\ c[k].start <= c[k + 1].start
           /\ (k + 1 \notin ks) => Abs(c[k].end - seg.end) <= err
           /\ Abs(count * (c[k].end - c[k].start) - span) <= count * err
           /\ Abs(DurationSum(ks) - span) <= count * err

Consumed(g) == g \in 1..seg_pos /\ segments[g].end > segments[g].start

Chronological ==
    \A k \in 1..(Len(chunked_segments) - 1) :
        chunked_segments[k].start <= chunked_segments[k + 1].start

----------------------------------------------------------------------------
(* create_ass_file, lines 108-137: the Dialogue line of one caption        *)
(* segment.  With karaoke on, the text is a run of tags, one per word,     *)
(* each carrying the reveal timer k of the \k tag.                         *)

ZeroDivisionError == [raised |-> TRUE]
Quotient(v) == [raised |-> FALSE, value |-> v]

(* a / n of a float by an int.                                             *)
FloatDiv(a, n) == IF n = 0 THEN ZeroDivisionError ELSE Quotient(FDiv(a, n))

(* Line 126.                                                               *)
WordDuration_whole(duration, words) == Quotient(duration)

WordDuration(duration, words) ==
    IF words # <<>> THEN FloatDiv(duration, Len(words))
                    ELSE Quotient(duration)

(* Line 127: int(word_duration * 100), word_duration being in seconds.     *)
KTime(word_duration) == FMul(100, word_duration) \div SecondUnits

(* Lines 124-133.                                                          *)
KaraokeTags(seg) ==
    LET words == split(Strip(seg.text))
        duration == FSub(seg.end, seg.start)
        word_duration == WordDuration(duration, words)
    IN  IF word_duration.raised
        THEN [done |-> TRUE, raised |-> TRUE, tags |-> <<>>]
        ELSE [done |-> TRUE, raised |-> FALSE,
              tags |-> [k \in 1..Len(words) |->
                           [k |-> KTime(word_duration.value),
                            word |-> words[k]]]]

(* Line 135 without karaoke: the stripped text, no tag.                    *)
PlainLine == [done |-> TRUE, raised |-> FALSE, tags |-> <<>>]

DialogueInit ==
    /\ \E a, b \in CaptionTimes, w \in 0..DefaultMaxWords,
          on \in BOOLEAN :
          /\ a <= b
          /\ line = [start |-> a, end |-> b, text |-> SegText(w),
                     enable_karaoke |-> on]
    /\ karaoke = NotWritten
    /\ MatcherIdle /\ OverlayIdle /\ ChunkerIdle
    /\ TimestampIdle /\ TranscriberIdle /\ AppsIdle
    /\ SchedulerIdle

(* One turn of the loop of line 108.                                       *)
WriteDialogue ==
    /\ karaoke = NotWritten
    /\ karaoke' = IF line.enable_karaoke THEN KaraokeTags(line)
                                         ELSE PlainLine
    /\ UNCHANGED <<line, matcher, overlay, chunker, timestamps,
                   transcriber, apps, scheduler>>

DialogueNext == WriteDialogue

DialogueSpec == DialogueInit /\ [][DialogueNext]_vars

----------------------------------------------------------------------------
LineWords == split(Strip(line.text))
LineSpan == line.end - line.start

(* Every word of the line has its tag, all tags carry the same timer, and  *)
(* a line without words is written without error.                          *)
KaraokeShape ==
    /\ ~karaoke.raised
    /\ Len(karaoke.tags) = Len(LineWords)
    /\ \A k \in 1..Len(karaoke.tags) :
          /\ karaoke.tags[k].word = LineWords[k]
          /\ karaoke.tags[k].k = karaoke.tags[1].k

(* C23, as the code has it: in karaoke mode every word of a line carries   *)
(* the same timer, int((span / word count) * 100) computed in floating     *)
(* point: it is the whole-centisecond truncation of span / word count up   *)
(* to the rounding of the three operations (a relative error below         *)
(* 4 / 2^Precision), so the timers of a line sum to at most the span       *)
(* plus that rounding error; a line without words divides nothing.         *)
C23_KaraokeTimersRounded ==
    (karaoke.done /\ line.enable_karaoke) =>
        /\ KaraokeShape
        /\ \A k \in 1..Len(karaoke.tags) :
              LET n == Len(LineWords)
                  t == karaoke.tags[k].k
              IN  /\ n * t * SecondUnits * 2^Precision
                        <= 100 * LineSpan * (2^Precision + 4)
                  /\ n * (t + 1) * SecondUnits * 2^Precision
                        > 100 * LineSpan * (2^Precision - 3)

(* A line of several words whose timers sum to more than its span.         *)
C23_Witness ==
    /\ karaoke.done /\ line.enable_karaoke
    /\ Len(LineWords) >= 2
    /\ Len(karaoke.tags) = Len(LineWords)
    /\ karaoke.tags[1].k > 0
    /\ Len(LineWords) * karaoke.tags[1].k * SecondUnits > 100 * LineSpan

(* C23 as stated: the timer is exactly the truncated quotient and the      *)
(* timers of a line never sum to more than the span.                       *)
C23_KaraokeTimers ==
    (karaoke.done /\ line.enable_karaoke) =>
        /\ KaraokeShape
        /\ \A k \in 1..Len(karaoke.tags) :
              LET n == Len(LineWords)
                  t == karaoke.tags[k].k
              IN  /\ t = (100 * LineSpan) \div (n * SecondUnits)
                  /\ n * t * SecondUnits <= 100 * LineSpan

----------------------------------------------------------------------------
(* C28: the duration matcher never deletes or overwrites the caller's      *)
(* source video or audio: a 1920x1080 video is not scaled, its own path is *)
(* what the later steps read and the cleanup leaves it in place; the       *)
(* scaled copy is deleted only when one was created.                       *)
C28_SourcesUntouched ==
    \A t \in DOMAIN jobs :
        /\ SourceVideo(t) \notin touched
        /\ SourceAudio(t) \notin touched
        /\ jobs[t].hd =>
              /\ Count(t, "scale") = 0
              /\ ProcessedVideo(t) = SourceVideo(t)
        /\ (step[t] = "success" /\ ScaledFile(t) \in touched) =>
              Count(t, "scale") > 0

----------------------------------------------------------------------------
(* C29: the scheduler never changes the caller's task records, the tasks   *)
(* handed to the pool all carry the batch's quality_preset, and every      *)
(* pipeline that is started, in the single-task path and in the pool, is   *)
(* given the batch's quality_preset, whatever preset the task carried.     *)
C29_BatchPresetApplied ==
    /\ [](\A i \in 1..Len(tasks) :
             applied[i] # None => applied[i] = Some(quality_preset))
    /\ [](\A i \in DOMAIN prepared_tasks :
             /\ prepared_tasks[i].quality_preset = Some(quality_preset)
             /\ prepared_tasks[i].id = tasks[i].id
             /\ prepared_tasks[i].keys = tasks[i].keys)
    /\ [][tasks' = tasks /\ task_preset' = task_preset]_vars

(* A batch of two has returned; one of its tasks carried a preset other    *)
(* than the batch's and its pipeline ran with the batch's.                 *)
C29_Witness ==
    /\ pc = "returned"
    /\ Len(tasks) >= 2
    /\ \E i \in 1..Len(tasks) :
         /\ task_preset[i] \notin {None, Some(quality_preset)}
         /\ applied[i] = Some(quality_preset)
         /\ prepared_tasks[i].quality_preset = Some(quality_preset)

(* C30: whatever max_workers is requested, a batch of well-formed tasks    *)
(* that takes the multi-task path on a machine with a GPU has a pool of    *)
(* between one and MaxPool workers, does not raise, and returns one        *)
(* record per task.                                                        *)
C30_AnyWorkerCount ==
    (/\ entry = "parallel" \/ Len(tasks) >= 2
     /\ \A i \in 1..Len(tasks) : tasks[i].keys = Fields)
    => /\ pc = "raised" => exc = GpuError
       /\ executor => max_workers \in 1..MaxPool
       /\ pc = "returned" => Len(ret.results) = Len(tasks)

----------------------------------------------------------------------------
(* The extraction run of yttranscriber.py and its run/stop flag.           *)

(* What extract_videos does for a channel: it raises, or returns a list    *)
(* of videos, which may be empty.                                          *)
ExtractError == [raised |-> TRUE]
Found(k) == [raised |-> FALSE, videos |-> k]
ChannelFinds == {ExtractError} \cup {Found(k) : k \in 0..MaxVideos}

YtInit ==
    /\ \E n \in 1..MaxChannels : channel_configs \in [1..n -> ChannelFinds]
    /\ yt_is_running = FALSE /\ yt_pc = "button"
    /\ idx = 0 /\ video_i = 0 /\ late = {}
    /\ StoryIdle
    /\ MatcherIdle /\ OverlayIdle /\ ChunkerIdle
    /\ TimestampIdle /\ TranscriberIdle /\ DialogueIdle
    /\ SchedulerIdle

(* Lines 258-264 and 271-274: the Start button sets the flag and the run   *)
(* begins.                                                                 *)
StartExtraction ==
    /\ yt_pc = "button" /\ ~yt_is_running
    /\ yt_is_running' = TRUE
    /\ yt_pc' = "channels"
    /\ UNCHANGED <<channel_configs, idx, video_i, late>>

(* Lines 265-268: the Stop button clears the flag; the loops see it at     *)
(* their next check.                                                       *)
StopExtraction ==
    /\ yt_is_running /\ yt_pc \notin {"button", "done"}
    /\ yt_is_running' = FALSE
    /\ UNCHANGED <<channel_configs, yt_pc, idx, video_i, late>>

(* Lines 277-287: the for statement takes the next channel and             *)
(* extract_videos is called for it.                                        *)
NextChannel ==
    /\ yt_pc = "channels" /\ idx < Len(channel_configs)
    /\ idx' = idx + 1
    /\ yt_pc' = "extracting"
    /\ late' = IF yt_is_running THEN late
                                ELSE late \cup {<<"channel", idx + 1>>}
    /\ UNCHANGED <<yt_is_running, channel_configs, video_i>>

(* Lines 282-295 and 309-310: extract_videos ends. An exception goes to    *)
(* the except clause and on to the check of line 312; an empty list        *)
(* continues with the next channel; otherwise transcribe_videos is called. *)
Extracted ==
    /\ yt_pc = "extracting"
    /\ LET found == channel_configs[idx] IN
         IF found.raised
         THEN yt_pc' = "check" /\ video_i' = video_i
         ELSE IF found.videos = 0
              THEN yt_pc' = "channels" /\ video_i' = video_i
              ELSE yt_pc' = "videos" /\ video_i' = 0
    /\ UNCHANGED <<yt_is_running, channel_configs, idx, late>>

(* Lines 119-131 of transcribe_videos: the loop ends after the last video, *)
(* breaks when the flag is cleared, and otherwise starts the next video.   *)
NextVideo ==
    /\ yt_pc = "videos"
    /\ IF video_i = channel_configs[idx].videos \/ ~yt_is_running
       THEN yt_pc' = "check" /\ video_i' = video_i
       ELSE yt_pc' = "transcribing" /\ video_i' = video_i + 1
    /\ UNCHANGED <<yt_is_running, channel_configs, idx, late>>

(* The transcript of the video in flight is fetched and saved, whatever    *)
(* the flag is.                                                            *)
VideoDone ==
    /\ yt_pc = "transcribing"
    /\ yt_pc' = "videos"
    /\ UNCHANGED <<yt_is_running, channel_configs, idx, video_i, late>>

(* Lines 312-314: the check at the end of a channel.                       *)
ChannelCheck ==
    /\ yt_pc = "check"
    /\ yt_pc' = IF yt_is_running THEN "channels" ELSE "finish"
    /\ UNCHANGED <<yt_is_running, channel_configs, idx, video_i, late>>

(* Lines 316-317: after the loop.                                          *)
FinishExtraction ==
    /\ \/ yt_pc = "finish"
       \/ yt_pc = "channels" /\ idx = Len(channel_configs)
    /\ yt_is_running' = FALSE
    /\ yt_pc' = "done"
    /\ UNCHANGED <<channel_configs, idx, video_i, late>>

YtNext ==
    /\ \/ StartExtraction
       \/ StopExtraction
       \/ NextChannel
       \/ Extracted
       \/ NextVideo
       \/ VideoDone
       \/ ChannelCheck
       \/ FinishExtraction
    /\ UNCHANGED <<story, matcher, overlay, chunker, timestamps,
                   transcriber, dialogue, scheduler>>

YtSpec == YtInit /\ [][YtNext]_vars

(* C24: once the run/stop flag is cleared no further unit of work, a       *)
(* channel or a video, is started.                                         *)
C24_NoStartAfterStop == late = {}

----------------------------------------------------------------------------
(* The story loop of VideoProcessorApp.run, vidprocessor.py lines 471-644. *)

(* The stages of one story, in the order of lines 495-586.                 *)
StageOrder == <<"transcribe", "captions", "match", "burn", "finish">>

(* What will happen to a story: every stage succeeds, the transcript has   *)
(* no segment, or the named stage raises.                                  *)
Fates ==
    {"ok", "no_speech"} \cup {StageOrder[k] : k \in 1..Len(StageOrder)}

(* Lines 524, 545, 556, 568 and 585: the file a stage writes. The three    *)
(* working files are in temp_dir, the last stage writes                    *)
(* story['video_path'], which is Story_N.mp4 in the story's folder.        *)
StageOutput_burn_final(st, n) ==
    CASE st = "captions" -> <<"subtitles", n>>
      [] st = "match"    -> <<"combined", n>>
      [] st = "burn"     -> <<"Story", n>>
      [] st = "finish"   -> <<"Story", n>>

StageOutput(st, n) ==
    CASE st = "captions" -> <<"subtitles", n>>
      [] st = "match"    -> <<"combined", n>>
      [] st = "burn"     -> <<"with_subs", n>>
      [] st = "finish"   -> <<"Story", n>>

TempFiles(n) == {<<"subtitles", n>>, <<"combined", n>>, <<"with_subs", n>>}
StoryFiles(n) == TempFiles(n) \cup {<<"Story", n>>}

(* What a stage that succeeds leaves in its output file.                   *)
Product(st, overlaid) ==
    CASE st = "captions" -> "captions"
      [] st = "match"    -> "combined"
      [] st = "burn"     -> "captioned"
      [] st = "finish"   -> IF overlaid THEN "overlaid" ELSE "captioned"

NextStage(st) ==
    CASE st = "transcribe" -> "captions"
      [] st = "captions"   -> "match"
      [] st = "match"      -> "burn"
      [] st = "burn"       -> "finish"
      [] st = "finish"     -> "cleanup"

(* Line 566: the overlay branch is taken when the box is ticked and the    *)
(* overlay file is there.                                                  *)
UseOverlay == enable_overlay /\ overlay_ready

(* video_overlay.py lines 192-193: a non-zero exit of the overlay encode   *)
(* raises RuntimeError.                                                    *)
OverlayRaises_never(exit_ok) == FALSE

OverlayRaises(exit_ok) == ~exit_ok

(* Line 499: failed_count += 1 for a transcript without segments.          *)
NoSpeechCount_skip(failed) == failed

NoSpeechCount(failed) == failed + 1

(* Lines 52-87 and 251: the selected stories; a story's video may be there *)
(* from an earlier run. Lines 318-340: the overlay settings.               *)
StoryInit ==
    /\ \E n \in 0..MaxStories :
         /\ \E fs \in [1..n -> Fates], hv \in [1..n -> BOOLEAN] :
              selected_stories =
                 [i \in 1..n |-> [story_number |-> i, fate |-> fs[i],
                                  has_video |-> hv[i]]]
         /\ disk = [f \in UNION {StoryFiles(i) : i \in 1..n} |->
                       IF f[1] = "Story" /\ selected_stories[f[2]].has_video
                       THEN "old" ELSE "absent"]
         /\ writers = [f \in UNION {StoryFiles(i) : i \in 1..n} |-> {}]
         /\ stages = [i \in 1..n |-> <<>>]
    /\ enable_overlay \in BOOLEAN
    /\ overlay_ready \in BOOLEAN
    /\ overlay_ready => enable_overlay
    /\ story_idx = 0 /\ stage = "idle"
    /\ processed_count = 0 /\ failed_count = 0 /\ log = <<>>
    /\ YtIdle
    /\ MatcherIdle /\ OverlayIdle /\ ChunkerIdle
    /\ TimestampIdle /\ TranscriberIdle /\ DialogueIdle
    /\ SchedulerIdle

Fate == selected_stories[story_idx].fate

Started(st) == stages' = [stages EXCEPT ![story_idx] = Append(@, st)]

(* A stage writes its output file.                                         *)
StageWrites(st, content) ==
    LET f == StageOutput(st, story_idx) IN
      /\ disk' = [disk EXCEPT ![f] = content]
      /\ writers' = [writers EXCEPT ![f] = @ \cup {st}]

(* A stage that raises has written nothing, or has left a part of its      *)
(* output.                                                                 *)
WritesNothingOrPart(st) ==
    \/ UNCHANGED <<disk, writers>>
    \/ StageWrites(st, "partial")

(* Lines 613-617: the except clause counts the story as failed and the     *)
(* loop continues with the next story.                                     *)
Except ==
    /\ failed_count' = failed_count + 1
    /\ processed_count' = processed_count
    /\ log' = Append(log, [story |-> story_idx, as |-> "failed"])
    /\ stage' = "idle"

(* Lines 476-490: the for statement takes the next story.                  *)
StoryBegin ==
    /\ stage = "idle" /\ story_idx < Len(selected_stories)
    /\ story_idx' = story_idx + 1
    /\ stage' = "transcribe"
    /\ UNCHANGED <<selected_stories, enable_overlay, overlay_ready,
                   processed_count, failed_count, disk, writers, stages,
                   log>>

(* Lines 495-500: transcribe_audio; a transcript without segments counts   *)
(* the story as failed and continues with the next story.                  *)
Transcribe ==
    /\ stage = "transcribe"
    /\ Started("transcribe")
    /\ IF Fate = "transcribe"
       THEN Except
       ELSE IF Fate = "no_speech"
            THEN /\ failed_count' = NoSpeechCount(failed_count)
                 /\ processed_count' = processed_count
                 /\ log' = Append(log, [story |-> story_idx,
                                        as |-> "failed"])
                 /\ stage' = "idle"
            ELSE /\ stage' = NextStage("transcribe")
                 /\ UNCHANGED <<processed_count, failed_count, log>>
    /\ UNCHANGED <<selected_stories, enable_overlay, overlay_ready,
                   story_idx, disk, writers>>

(* A stage that writes a working file in temp_dir.                         *)
TempStage(st) ==
    /\ stage = st
    /\ Started(st)
    /\ IF Fate = st
       THEN WritesNothingOrPart(st) /\ Except
       ELSE /\ StageWrites(st, Product(st, FALSE))
            /\ stage' = NextStage(st)
            /\ UNCHANGED <<processed_count, failed_count, log>>
    /\ UNCHANGED <<selected_stories, enable_overlay, overlay_ready,
                   story_idx>>

(* Lines 524-539: create_ass_file.                                         *)
CreateCaptions == TempStage("captions")

(* Lines 545-550: loop_video_to_match_audio.                               *)
MatchDuration == TempStage("match")

(* Lines 556-561: burn_subtitles.                                          *)
BurnCaptions == TempStage("burn")

(* Lines 566-595: the overlay encode, or the copy of the captioned video,  *)
(* writes the story's video; then processed_count += 1.                    *)
Finish ==
    /\ stage = "finish"
    /\ Started("finish")
    /\ LET ok == Fate # "finish"
           raised == IF UseOverlay THEN OverlayRaises(ok) ELSE ~ok
       IN  /\ IF ok THEN StageWrites("finish", Product("finish", UseOverlay))
                    ELSE WritesNothingOrPart("finish")
           /\ IF raised
              THEN Except
              ELSE /\ processed_count' = processed_count + 1
                   /\ failed_count' = failed_count
                   /\ log' = Append(log, [story |-> story_idx,
                                          as |-> "processed"])
                   /\ stage' = NextStage("finish")
    /\ UNCHANGED <<selected_stories, enable_overlay, overlay_ready,
                   story_idx>>

(* Lines 606-611: the working files of a finished story are removed.       *)
Cleanup ==
    /\ stage = "cleanup"
    /\ disk' = [f \in DOMAIN disk |->
                   IF f \in TempFiles(story_idx) THEN "absent" ELSE disk[f]]
    /\ stage' = "idle"
    /\ UNCHANGED <<selected_stories, enable_overlay, overlay_ready,
                   story_idx, processed_count, failed_count, writers,
                   stages, log>>

(* Lines 619-644: the loop is over and the summary is shown.               *)
ShowSummary ==
    /\ stage = "idle" /\ story_idx = Len(selected_stories)
    /\ stage' = "done"
    /\ UNCHANGED <<selected_stories, enable_overlay, overlay_ready,
                   story_idx, processed_count, failed_count, disk, writers,
                   stages, log>>

StoryNext ==
    /\ \/ StoryBegin
       \/ Transcribe
       \/ CreateCaptions
       \/ MatchDuration
       \/ BurnCaptions
       \/ Finish
       \/ Cleanup
       \/ ShowSummary
    /\ UNCHANGED <<yt, matcher, overlay, chunker, timestamps, transcriber,
                   dialogue, scheduler>>

StorySpec == StoryInit /\ [][StoryNext]_vars

(* Vocabulary of the properties.                                           *)

(* The loop is through with story i.                                       *)
Over(i) == i < story_idx \/ (i = story_idx /\ stage \in {"idle", "done"})

(* How often, and as what, story i was counted.                            *)
Counted(i, as) ==
    Cardinality({k \in 1..Len(log) : log[k] = [story |-> i, as |-> as]})

Ran(i, st) == \E k \in 1..Len(stages[i]) : stages[i][k] = st

Original(i) == IF selected_stories[i].has_video THEN "old" ELSE "absent"

(* C25: when the overlay is enabled and its encode fails, the story is     *)
(* counted as failed, not as processed, and its final video is not the     *)
(* captioned video without the overlay.                                    *)
C25_OverlayFailureCounts ==
    \A i \in 1..Len(selected_stories) :
        (UseOverlay /\ selected_stories[i].fate = "finish" /\ Over(i))
        => /\ Counted(i, "failed") = 1
           /\ Counted(i, "processed") = 0
           /\ failed_count >= 1
           /\ disk[<<"Story", i>>] # "captioned"

(* The loop has ended; the overlay encode of a story whose captions were   *)
(* burnt has failed.                                                       *)
C25_Witness ==
    /\ stage = "done"
    /\ UseOverlay
    /\ \E i \in 1..Len(selected_stories) :
         /\ selected_stories[i].fate = "finish"
         /\ Ran(i, "finish")
         /\ disk[<<"with_subs", i>>] = "captioned"
         /\ Counted(i, "failed") = 1

(* C26: a failure never stops the loop: when it ends every selected story  *)
(* was started and counted exactly once, so the two counters add up to the *)
(* number of selected stories; a story without speech is counted as failed *)
(* and no stage after the transcription was started for it.                *)
C26_EveryStoryCounted ==
    /\ processed_count + failed_count = Len(log)
    /\ stage = "done" =>
          /\ processed_count + failed_count = Len(selected_stories)
          /\ \A i \in 1..Len(selected_stories) :
                /\ Ran(i, "transcribe")
                /\ Counted(i, "failed") + Counted(i, "processed") = 1
    /\ \A i \in 1..Len(selected_stories) :
          (selected_stories[i].fate = "no_speech" /\ Over(i))
          => /\ Counted(i, "failed") = 1
             /\ stages[i] = <<"transcribe">>
             /\ \A f \in StoryFiles(i) : writers[f] = {}

(* The loop has ended after a story without speech, a story whose stage    *)
(* raised and a story that was processed after them.                       *)
C26_Witness ==
    /\ stage = "done"
    /\ failed_count >= 1 /\ processed_count >= 1
    /\ \E i, j \in 1..Len(selected_stories) :
         /\ i < j
         /\ selected_stories[i].fate \in {"no_speech", "match"}
         /\ Counted(i, "failed") = 1
         /\ Counted(j, "processed") = 1

(* C27: the stages of a story are started in the order transcribe,         *)
(* captions, match, burn, finish; only the last stage writes the story's   *)
(* video, and while that stage has not started the file is as it was.      *)
C27_StagesInOrder ==
    \A i \in 1..Len(selected_stories) :
        /\ Len(stages[i]) <= Len(StageOrder)
        /\ stages[i] = SubSeq(StageOrder, 1, Len(stages[i]))
        /\ writers[<<"Story", i>>] \subseteq {"finish"}
        /\ ~Ran(i, "finish") => disk[<<"Story", i>>] = Original(i)

(* The loop has ended: one story went through all five stages and has its  *)
(* video from the last one; the burn of another raised and the video it    *)
(* had before is still there.                                              *)
C27_Witness ==
    /\ stage = "done"
    /\ \E i, j \in 1..Len(selected_stories) :
         /\ stages[i] = StageOrder
         /\ writers[<<"Story", i>>] = {"finish"}
         /\ disk[<<"Story", i>>] \in {"captioned", "overlaid"}
         /\ selected_stories[j].fate = "burn"
         /\ selected_stories[j].has_video
         /\ stages[j] = SubSeq(StageOrder, 1, 4)
         /\ disk[<<"Story", j>>] = "old"

====
